---- MODULE Spec2Model ----
(***************************************************************************)
(* A model of the feed-forward neural-network trainer of                   *)
(* neural_network_implementation.ipynb: the initializer (create_layers),   *)
(* the mini-batch sampler (generate_random_mini_batches), the four         *)
(* optimizer strategies and the training loop (train_nn_model).            *)
(*                                                                         *)
(* Tensors are modelled by their shape and by what the code did to them    *)
(* (allocated by np.zeros, by np.random.randn, how many in-place or        *)
(* rebinding updates they received).  Their entries are represented only   *)
(* in SpecNumeric, which computes one mini-batch step of a single-layer    *)
(* network in exact rational arithmetic.  Python dictionaries keyed        *)
(* 'W'+str(i) are functions keyed <<"W", i>>.  A Python exception is a     *)
(* value of the field "raised".                                            *)
(***************************************************************************)
EXTENDS Integers, Sequences, FiniteSets, TLC

VARIABLES
    mode,           \* which entry point this behaviour calls
    pc,             \* position of the running call
    raised,         \* the exception that ended the call, or "none"
    X,              \* input: the columns of X, as example ids 0..m-1
    Y,              \* input: the labels, one per column
    batch_arg,      \* sampler call: its mini_batch_size argument
    permutation,    \* the permutation drawn by the last sampler call
    mini_batches,   \* the list returned by the last sampler call
    layers_list,    \* the topology handed to create_layers
    parameters,     \* the parameter store (dictionary)
    n_x,            \* train: X.shape[0]
    hidden_layers,  \* train: argument
    epochs,         \* train: argument
    learning_rate,  \* train: argument, by shape (Scalar for a float)
    regularization, \* train: argument
    optimization,   \* train: argument
    t,              \* train: argument
    kwargs,         \* train: a mini_batch_size keyword the caller passes, or <<>>
    v,              \* train: local v, [bound, d]
    s,              \* train: local s, [bound, d]
    epoch,          \* train: loop variable
    batch,          \* train: 1-based position in mini_batches
    activations,    \* train: local
    grads,          \* train: local
    cost,           \* train: the terms added to cost in this epoch
    i,              \* train: layer index inside the running update call
    num,            \* numeric run: the arrays of one network, entry by entry
    log             \* history: the operations performed so far

inputs == <<mode, X, Y, batch_arg, n_x, hidden_layers, epochs, learning_rate,
            regularization, optimization, t, kwargs, num>>
locals == <<v, s, epoch, batch, activations, grads, cost, i>>
vars == <<mode, pc, raised, X, Y, batch_arg, permutation, mini_batches,
          layers_list, parameters, n_x, hidden_layers, epochs, learning_rate,
          regularization, optimization, t, kwargs, v, s, epoch, batch,
          activations, grads, cost, i, num, log>>

-----------------------------------------------------------------------------
(* Bounds of the model *)

MaxM == 5          \* sampler: at most this many examples
MaxB == 3          \* sampler: batch sizes 1..MaxB
MaxLen == 3        \* initializer: topologies of at most this many entries
MaxWidth == 2      \* layer widths up to this
MaxEpochs == 2     \* train: epochs 0..MaxEpochs
MaxFull == 1       \* train: at most this many full mini-batches of examples

(* Program constants *)

mini_batch_size == 64   \* train_nn_model: mini_batch_size = 64
t_default == 2          \* train_nn_model: t=2

-----------------------------------------------------------------------------
(* Python helpers *)

Min(a, b) == IF a <= b THEN a ELSE b

PySliceInclusive(sq, a, b) == SubSeq(sq, Min(a, Len(sq)) + 1, Min(b + 1, Len(sq)))

\* sq[a:b] for 0 <= a <= b on a Python sequence (clipped to len(sq))
PySlice(sq, a, b) == SubSeq(sq, Min(a, Len(sq)) + 1, Min(b, Len(sq)))

\* math.floor(a/b) for a >= 0, b >= 1
FloorDiv(a, b) == a \div b

RECURSIVE Concat(_)
Concat(ss) == IF ss = <<>> THEN <<>> ELSE Head(ss) \o Concat(Tail(ss))

\* the values np.random.permutation(m) can return
np_random_permutation(m) ==
    {p \in [1..m -> 0..(m-1)] : \A a, b \in 1..m : p[a] = p[b] => a = b}

-----------------------------------------------------------------------------
(* generate_random_mini_batches *)

\* X[:, permutation]: fancy indexing of the columns by a list of indices
TakeColumns(cols, perm) == [j \in 1..Len(perm) |-> cols[perm[j] + 1]]

NumBatchesOffByOne(m, batch_size) == FloorDiv(m, batch_size)

NumBatchesCeil(m, batch_size) == FloorDiv(m + batch_size - 1, batch_size)

\* num_complete_minibatches = 1 + math.floor(m/mini_batch_size)
num_complete_minibatches(m, batch_size) ==
    1 + FloorDiv(m, batch_size)

\* the body of the function, given the permutation np.random drew
generate_random_mini_batches(Xc, Yc, batch_size, perm) ==
    LET m == Len(Xc)
        shuffled_X == TakeColumns(Xc, perm)
        shuffled_Y == TakeColumns(Yc, perm)
        n == num_complete_minibatches(m, batch_size)
    IN  [k1 \in 1..n |->
            LET k == k1 - 1 IN
            [X |-> PySlice(shuffled_X, k * batch_size, (k + 1) * batch_size),
             Y |-> PySlice(shuffled_Y, k * batch_size, (k + 1) * batch_size)]]

-----------------------------------------------------------------------------
(* Tensors: numpy arrays by shape and provenance *)

\* np.zeros(shape): all entries 0, never written
Zeros(shape) == [shape |-> shape, zeros |-> TRUE, nupd |-> 0]

\* np.random.randn(r, c) * scalar: Gaussian entries, never written
Randn(shape) == [shape |-> shape, zeros |-> FALSE, nupd |-> 0]

Scalar == <<>>          \* the shape of a Python float / 0-d operand
BadShape == <<0 - 1>>   \* operands that numpy cannot broadcast together

\* numpy's broadcasting rule for two operands (2-d arrays or scalars)
Broadcast(a, b) ==
    IF a = BadShape \/ b = BadShape THEN BadShape
    ELSE IF a = Scalar THEN b
    ELSE IF b = Scalar THEN a
    ELSE IF \A d \in 1..2 : a[d] = b[d] \/ a[d] = 1 \/ b[d] = 1
         THEN [d \in 1..2 |-> IF a[d] = 1 THEN b[d] ELSE a[d]]
         ELSE BadShape

\* target -= operand is legal iff operand broadcasts to target's own shape
InPlaceOK(target, operand) ==
    /\ operand # BadShape
    /\ \/ operand = Scalar
       \/ \A d \in 1..2 : operand[d] = target[d] \/ operand[d] = 1

\* Python dictionaries
EmptyDict == <<>>
Put(d, k, x) == (k :> x) @@ d

-----------------------------------------------------------------------------
(* initialize_parameters, create_layers *)

InitWeightTransposed(n_input_nodes, n_output_nodes) ==
    [raised |-> "none",
     W |-> Randn(<<n_input_nodes, n_output_nodes>>),
     b |-> Zeros(<<n_output_nodes, 1>>)]

InitParamsValidates(n_input_nodes, n_output_nodes) ==
    IF n_output_nodes <= 0 \/ n_input_nodes <= 0
    THEN [raised |-> "ConfigError", W |-> Zeros(<<0, 0>>), b |-> Zeros(<<0, 0>>)]
    ELSE [raised |-> "none",
          W |-> Randn(<<n_output_nodes, n_input_nodes>>),
          b |-> Zeros(<<n_output_nodes, 1>>)]

\* W = np.random.randn(n_out, n_in)*np.sqrt(1/n_in); b = np.zeros([n_out, 1])
\* randn rejects a negative dimension; 1/n_in divides Python integers
initialize_parameters(n_input_nodes, n_output_nodes) ==
    IF n_output_nodes < 0 \/ n_input_nodes < 0
    THEN [raised |-> "ValueError", W |-> Zeros(<<0, 0>>), b |-> Zeros(<<0, 0>>)]
    ELSE IF n_input_nodes = 0
    THEN [raised |-> "ZeroDivisionError",
          W |-> Zeros(<<0, 0>>), b |-> Zeros(<<0, 0>>)]
    ELSE [raised |-> "none",
          W |-> Randn(<<n_output_nodes, n_input_nodes>>),
          b |-> Zeros(<<n_output_nodes, 1>>)]

\* the loop of create_layers from index idx on, with the dictionary so far
RECURSIVE CreateLayersFrom(_, _, _)
CreateLayersFrom(ll, idx, params) ==
    IF idx >= Len(ll) THEN [raised |-> "none", parameters |-> params]
    ELSE LET r == initialize_parameters(ll[idx], ll[idx + 1]) IN
         IF r.raised # "none"
         THEN [raised |-> r.raised, parameters |-> EmptyDict]
         ELSE CreateLayersFrom(ll, idx + 1,
                  Put(Put(params, <<"W", idx>>, r.W), <<"b", idx>>, r.b))

\* for idx in range(1, len(layers_list)): parameters['W'+str(idx)], ... = ...
create_layers(ll) == CreateLayersFrom(ll, 1, EmptyDict)

\* len(parameters)//2
NumLayers(params) == Cardinality(DOMAIN params) \div 2

-----------------------------------------------------------------------------
(* forward_propagation, backward_propagation, compute_cost (shapes) *)

\* np.dot(a, b) of an (r, k) and a (k, c) array
Dot(a, b) == <<a[1], b[2]>>
Transpose(a) == <<a[2], a[1]>>

\* activations['A0'] = X; activations['A'+idx] = sigmoid(W.A + b)
RECURSIVE ForwardFrom(_, _, _)
ForwardFrom(params, idx, acts) ==
    IF idx > NumLayers(params) THEN acts
    ELSE ForwardFrom(params, idx + 1,
             Put(acts, <<"A", idx>>,
                 Broadcast(Dot(params[<<"W", idx>>].shape, acts[<<"A", idx - 1>>]),
                           params[<<"b", idx>>].shape)))

forward_propagation(x_shape, params) ==
    ForwardFrom(params, 1, Put(EmptyDict, <<"A", 0>>, x_shape))

\* dz_dict: dZ_last = A_last - y, then layers last-1 .. 1
RECURSIVE DzFrom(_, _, _, _)
DzFrom(params, acts, l, dz) ==
    IF l < 1 THEN dz
    ELSE DzFrom(params, acts, l - 1,
             Put(dz, <<"dZ", l>>,
                 Broadcast(acts[<<"A", l>>],
                           Dot(Transpose(params[<<"W", l + 1>>].shape),
                               dz[<<"dZ", l + 1>>]))))

\* m = y.shape[0]
BackwardM(y_shape) == y_shape[1]

BackwardRegularizesBias(y_shape, params, acts, reg_arg) ==
    LET m == BackwardM(y_shape)
        last == NumLayers(params)
        dz == DzFrom(params, acts, last - 1,
                  Put(EmptyDict, <<"dZ", last>>,
                      Broadcast(acts[<<"A", last>>], y_shape)))
    IN  [key \in {<<"dW", li>> : li \in 1..last} \cup {<<"db", li>> : li \in 1..last} |->
            LET li == key[2] IN
            IF key[1] = "dW"
            THEN [shape |-> Dot(dz[<<"dZ", li>>], Transpose(acts[<<"A", li - 1>>])),
                  m |-> m,
                  reg |-> (reg_arg = "l2")]
            ELSE [shape |-> <<dz[<<"dZ", li>>][1], 1>>,
                  m |-> m,
                  reg |-> (reg_arg = "l2")]]

\* gradients: each entry carries its shape, the m of its 1/m factor and
\* whether the (lambd/m)*W term was added to it
backward_propagation(y_shape, params, acts, reg_arg) ==
    LET m == BackwardM(y_shape)
        last == NumLayers(params)
        dz == DzFrom(params, acts, last - 1,
                  Put(EmptyDict, <<"dZ", last>>,
                      Broadcast(acts[<<"A", last>>], y_shape)))
    IN  [key \in {<<"dW", li>> : li \in 1..last} \cup {<<"db", li>> : li \in 1..last} |->
            LET li == key[2] IN
            IF key[1] = "dW"
            THEN [shape |-> Dot(dz[<<"dZ", li>>], Transpose(acts[<<"A", li - 1>>])),
                  m |-> m,
                  reg |-> (reg_arg = "l2")]
            ELSE [shape |-> <<dz[<<"dZ", li>>][1], 1>>,
                  m |-> m,
                  reg |-> FALSE]]

\* m = y.shape[1]; lambd/(2*m) and -1/m divide Python numbers by m.
\* np.log(act) and np.log(1-act) are -inf where the float sigmoid returned an
\* exact 1 or 0 (saturated); -inf times 0 is nan, numpy only warns, so the sum
\* and the returned cost are nan and nothing is raised.
compute_cost(y_shape, reg_arg, saturated) ==
    LET m == y_shape[2] IN
    IF m = 0
    THEN [raised |-> "ZeroDivisionError", m |-> m, reg |-> FALSE, finite |-> FALSE]
    ELSE [raised |-> "none", m |-> m, reg |-> (reg_arg = "l2"),
          finite |-> ~saturated]

-----------------------------------------------------------------------------
(* Optimizer state and the four update rules *)

\* a zero accumulator for every parameter, keyed 'dW'+str(i), 'db'+str(i)
ZeroAccumulators(params) ==
    [key \in {<<"dW", li>> : li \in 1..NumLayers(params)}
              \cup {<<"db", li>> : li \in 1..NumLayers(params)} |->
        Zeros(params[<<(IF key[1] = "dW" THEN "W" ELSE "b"), key[2]>>].shape)]

MomentumInitWrongShape(params) ==
    [key \in {<<"dW", li>> : li \in 1..NumLayers(params)}
              \cup {<<"db", li>> : li \in 1..NumLayers(params)} |->
        Zeros(params[<<"b", key[2]>>].shape)]

initialize_momentum_params(params) == ZeroAccumulators(params)

initialize_rmsprop_params(params) == ZeroAccumulators(params)

\* returns the pair v, s
initialize_adam_params(params) ==
    [v |-> ZeroAccumulators(params), s |-> ZeroAccumulators(params)]

\* The state a strategy works on: the parameter store, the accumulators it
\* was handed (EmptyDict for one it was not handed) and the exception raised.
\* A statement of a loop body leaves the state alone once one has raised.

\* acc[key] = beta*acc[key] + (1-beta)*g   (rebinds the entry)
AccStmt(st, which, key, g_shape) ==
    IF st.raised # "none" THEN st
    ELSE LET sh == Broadcast(st[which][key].shape, g_shape) IN
         IF sh = BadShape THEN [st EXCEPT !.raised = "ValueError"]
         ELSE [st EXCEPT ![which][key] =
                  [shape |-> sh, zeros |-> FALSE, nupd |-> @.nupd + 1]]

\* parameters[key] -= operand   (in place)
ParamStmt(st, key, operand) ==
    IF st.raised # "none" THEN st
    ELSE IF ~InPlaceOK(st.parameters[key].shape, operand)
    THEN [st EXCEPT !.raised = "ValueError"]
    ELSE [st EXCEPT !.parameters[key] =
             [shape |-> @.shape, zeros |-> FALSE, nupd |-> @.nupd + 1]]

PlainLayerSkipsBias(st, gradients, lr, li) ==
    ParamStmt(st, <<"W", li>>, Broadcast(lr, gradients[<<"dW", li>>].shape))

\* loop body of update_parameters for layer i
PlainLayer(st, gradients, lr, li) ==
    LET p1 == ParamStmt(st, <<"W", li>>,
                  Broadcast(lr, gradients[<<"dW", li>>].shape))
    IN  ParamStmt(p1, <<"b", li>>,
            Broadcast(lr, gradients[<<"db", li>>].shape))

\* loop body of update_parameters_momentum for layer i
MomentumLayer(st, gradients, lr, li) ==
    LET a1 == AccStmt(st, "v", <<"dW", li>>, gradients[<<"dW", li>>].shape)
        a2 == AccStmt(a1, "v", <<"db", li>>, gradients[<<"db", li>>].shape)
        p1 == ParamStmt(a2, <<"W", li>>,
                  Broadcast(lr, a2.v[<<"dW", li>>].shape))
    IN  ParamStmt(p1, <<"b", li>>,
            Broadcast(lr, p1.v[<<"db", li>>].shape))

\* loop body of update_parameters_rmsprop for layer i; s_corrected has the
\* shape of s, and the step subtracted is learning_rate*1/(epsilon + sqrt(.))
RmspropLayer(st, gradients, lr, li) ==
    LET a1 == AccStmt(st, "s", <<"dW", li>>, gradients[<<"dW", li>>].shape)
        a2 == AccStmt(a1, "s", <<"db", li>>, gradients[<<"db", li>>].shape)
        p1 == ParamStmt(a2, <<"W", li>>,
                  Broadcast(lr, a2.s[<<"dW", li>>].shape))
    IN  ParamStmt(p1, <<"b", li>>,
            Broadcast(lr, p1.s[<<"db", li>>].shape))

\* loop body of update_parameters_adam for layer i
AdamLayer(st, gradients, lr, li) ==
    LET a1 == AccStmt(st, "v", <<"dW", li>>, gradients[<<"dW", li>>].shape)
        a2 == AccStmt(a1, "v", <<"db", li>>, gradients[<<"db", li>>].shape)
        a3 == AccStmt(a2, "s", <<"dW", li>>, gradients[<<"dW", li>>].shape)
        a4 == AccStmt(a3, "s", <<"db", li>>, gradients[<<"db", li>>].shape)
        p1 == ParamStmt(a4, <<"W", li>>,
                  Broadcast(lr,
                      Broadcast(a4.v[<<"dW", li>>].shape, a4.s[<<"dW", li>>].shape)))
    IN  ParamStmt(p1, <<"b", li>>,
            Broadcast(lr,
                Broadcast(p1.v[<<"db", li>>].shape, p1.s[<<"db", li>>].shape)))

-----------------------------------------------------------------------------
(* Values shared by the specifications *)

Unbound == [bound |-> FALSE, d |-> EmptyDict]   \* a local never assigned
Bound(d) == [bound |-> TRUE, d |-> d]

NoT == 0 - 1    \* in a log entry: the operation reads no step counter

\* a log entry: ok is FALSE when the operation raised
Event(op, layer, strategy, step, ok) ==
    [op |-> op, epoch |-> epoch, batch |-> batch, layer |-> layer,
     strategy |-> strategy, t |-> step, ok |-> ok]

Columns(m) == [j \in 1..m |-> j - 1]

\* a behaviour that computes no array entries
NoNumbers == <<>>

FreshCall ==
    /\ raised = "none"
    /\ permutation = <<>>
    /\ mini_batches = <<>>
    /\ parameters = EmptyDict
    /\ v = Unbound
    /\ s = Unbound
    /\ epoch = 0
    /\ batch = 0
    /\ activations = EmptyDict
    /\ grads = EmptyDict
    /\ cost = <<>>
    /\ i = 0
    /\ log = <<>>

NoTrainArgs ==
    /\ n_x = 0
    /\ hidden_layers = <<>>
    /\ epochs = 0
    /\ learning_rate = Scalar
    /\ regularization = "l2"
    /\ optimization = "adam"
    /\ t = t_default
    /\ kwargs = <<>>

-----------------------------------------------------------------------------
(* SpecSampler: calls of generate_random_mini_batches(X, Y, B) *)

InitSampler ==
    /\ mode = "sampler"
    /\ pc = "call"
    /\ \E m \in 0..MaxM : X = Columns(m) /\ Y \in [1..m -> {0, 1}]
    /\ batch_arg \in 1..MaxB
    /\ layers_list = <<>>
    /\ NoTrainArgs
    /\ FreshCall
    /\ num = NoNumbers

SamplerCall ==
    /\ mode = "sampler"
    /\ pc = "call"
    /\ \E perm \in np_random_permutation(Len(X)) :
          /\ permutation' = perm
          /\ mini_batches' = generate_random_mini_batches(X, Y, batch_arg, perm)
    /\ pc' = "returned"
    /\ UNCHANGED <<inputs, locals, raised, layers_list, parameters, log>>

NextSampler == SamplerCall

SpecSampler == InitSampler /\ [][NextSampler]_vars

-----------------------------------------------------------------------------
(* SpecLayers: calls of create_layers(layers_list) *)

Topologies ==
    UNION {[1..n -> (0 - 1)..MaxWidth] : n \in 0..MaxLen}

InitLayers ==
    /\ mode = "layers"
    /\ pc = "call"
    /\ layers_list \in Topologies
    /\ X = <<>>
    /\ Y = <<>>
    /\ batch_arg = 0
    /\ NoTrainArgs
    /\ FreshCall
    /\ num = NoNumbers

CreateLayersCall ==
    /\ mode = "layers"
    /\ pc = "call"
    /\ LET r == create_layers(layers_list) IN
          /\ parameters' = r.parameters
          /\ raised' = r.raised
          /\ pc' = IF r.raised = "none" THEN "returned" ELSE "Error"
    /\ UNCHANGED <<inputs, locals, permutation, mini_batches, layers_list, log>>

NextLayers == CreateLayersCall

SpecLayers == InitLayers /\ [][NextLayers]_vars

-----------------------------------------------------------------------------
(* Spec: runs of train_nn_model *)

OptimizationNames == {"none", "momentum", "rmsprop", "adam", "sgd"}
HiddenChoices == {<<>>} \cup {<<h>> : h \in 1..MaxWidth}
LearningRates == {Scalar, <<1, 2>>, <<2, 1>>}
TrainSizes == {1} \cup {k * mini_batch_size + r : k \in 1..MaxFull, r \in 0..1}

\* the permutations the model lets np.random draw during a training run
TrainPermutations(m) ==
    {[j \in 1..m |-> j - 1], [j \in 1..m |-> m - j]}

Init ==
    /\ mode = "train"
    /\ pc = "Uninitialized"
    /\ \E m \in TrainSizes : X = Columns(m) /\ Y = [j \in 1..m |-> (j - 1) % 2]
    /\ batch_arg = 0
    /\ layers_list = <<>>
    /\ n_x \in 1..MaxWidth
    /\ hidden_layers \in HiddenChoices
    /\ epochs \in 0..MaxEpochs
    /\ learning_rate \in LearningRates
    /\ regularization \in {"l2", "none"}
    /\ optimization \in OptimizationNames
    /\ t \in {1, t_default}
    /\ kwargs \in {<<>>, <<32>>}
    /\ FreshCall
    /\ num = NoNumbers

\* the signature: train_nn_model has no mini_batch_size parameter
BindArguments(kw) == IF kw # <<>> THEN "TypeError" ELSE "none"

SelectAllAccumulators(name, params) ==
    [v |-> Bound(ZeroAccumulators(params)), s |-> Bound(ZeroAccumulators(params))]

SelectSwapped(name, params) ==
    IF name = "rmsprop"
    THEN [v |-> Bound(ZeroAccumulators(params)), s |-> Unbound]
    ELSE IF name = "adam"
    THEN [v |-> Bound(ZeroAccumulators(params)),
          s |-> Bound(ZeroAccumulators(params))]
    ELSE IF name = "momentum"
    THEN [v |-> Unbound, s |-> Bound(ZeroAccumulators(params))]
    ELSE [v |-> Unbound, s |-> Unbound]

\* if optimization == 'rmsprop': s = ... elif 'adam': v, s = ...
\* elif 'momentum': v = ...
InitOptimizerState(name, params) ==
    IF name = "rmsprop"
    THEN [v |-> Unbound, s |-> Bound(initialize_rmsprop_params(params))]
    ELSE IF name = "adam"
    THEN [v |-> Bound(initialize_adam_params(params).v),
          s |-> Bound(initialize_adam_params(params).s)]
    ELSE IF name = "momentum"
    THEN [v |-> Bound(initialize_momentum_params(params)), s |-> Unbound]
    ELSE [v |-> Unbound, s |-> Unbound]

HalfBatchSize(kw) == mini_batch_size \div 2

\* mini_batch_size = 64, the size handed to the sampler in every epoch
TrainBatchSize(kw) == mini_batch_size

\* argument binding, layers, create_layers, optimizer state
TrainInit ==
    /\ mode = "train"
    /\ pc = "Uninitialized"
    /\ IF BindArguments(kwargs) # "none"
       THEN /\ pc' = "Error"
            /\ raised' = BindArguments(kwargs)
            /\ UNCHANGED <<layers_list, parameters, v, s, log>>
       ELSE LET layers == <<n_x>> \o hidden_layers \o <<1>>
                r == create_layers(layers)
                o == InitOptimizerState(optimization, r.parameters)
            IN  /\ layers_list' = layers
                /\ IF r.raised # "none"
                   THEN /\ pc' = "Error"
                        /\ raised' = r.raised
                        /\ UNCHANGED <<parameters, v, s, log>>
                   ELSE /\ pc' = "Initialized"
                        /\ parameters' = r.parameters
                        /\ v' = o.v
                        /\ s' = o.s
                        /\ log' = log \o <<Event("create_layers", 0, "", NoT, TRUE),
                                           Event("init_state", 0, optimization, NoT, TRUE)>>
                        /\ UNCHANGED raised
    /\ UNCHANGED <<inputs, permutation, mini_batches, epoch, batch,
                   activations, grads, cost, i>>

\* for epoch in range(1, 1+epochs): cost = 0; minibatches = generate_...(...)
EpochBegin ==
    /\ mode = "train"
    /\ pc \in {"Initialized", "EpochEnd"}
    /\ epoch < epochs
    /\ epoch' = epoch + 1
    /\ cost' = <<>>
    /\ \E perm \in TrainPermutations(Len(X)) :
          /\ permutation' = perm
          /\ mini_batches' =
                 generate_random_mini_batches(X, Y, TrainBatchSize(kwargs), perm)
    /\ batch' = 1
    /\ pc' = "Forward"
    /\ log' = Append(log, [Event("sample", 0, "", NoT, TRUE) EXCEPT !.epoch = epoch + 1,
                                                              !.batch = 0])
    /\ UNCHANGED <<inputs, raised, layers_list, parameters, v, s, activations,
                   grads, i>>

XShape == <<n_x, Len(mini_batches[batch].X)>>
YShape == <<1, Len(mini_batches[batch].Y)>>

ForwardThenCost ==
    /\ mode = "train"
    /\ pc = "Forward"
    /\ activations' = forward_propagation(XShape, parameters)
    /\ pc' = "Cost"
    /\ log' = Append(log, Event("forward", 0, "", NoT, TRUE))
    /\ UNCHANGED <<inputs, raised, permutation, mini_batches, layers_list,
                   parameters, v, s, epoch, batch, grads, cost, i>>

\* activations, prediction = forward_propagation(minibatch_X, parameters)
Forward ==
    /\ mode = "train"
    /\ pc = "Forward"
    /\ activations' = forward_propagation(XShape, parameters)
    /\ pc' = "Backward"
    /\ log' = Append(log, Event("forward", 0, "", NoT, TRUE))
    /\ UNCHANGED <<inputs, raised, permutation, mini_batches, layers_list,
                   parameters, v, s, epoch, batch, grads, cost, i>>

\* grads = backward_propagation(minibatch_y, parameters, activations, ...)
Backward ==
    /\ mode = "train"
    /\ pc = "Backward"
    /\ grads' = backward_propagation(YShape, parameters, activations, regularization)
    /\ pc' = "Cost"
    /\ log' = Append(log, Event("backward", 0, "", NoT, TRUE))
    /\ UNCHANGED <<inputs, raised, permutation, mini_batches, layers_list,
                   parameters, v, s, epoch, batch, activations, cost, i>>

\* cost += compute_cost(prediction, minibatch_y, parameters, lambd, ...);
\* whether the prediction holds a saturated entry depends on the random
\* weights and on the values of X
Cost ==
    /\ mode = "train"
    /\ pc = "Cost"
    /\ \E saturated \in BOOLEAN :
          LET c == compute_cost(YShape, regularization, saturated) IN
          /\ IF c.raised # "none"
             THEN /\ pc' = "Error"
                  /\ raised' = c.raised
                  /\ UNCHANGED <<cost, i>>
             ELSE /\ pc' = "Update"
                  /\ cost' = Append(cost, [m |-> c.m, reg |-> c.reg,
                                           finite |-> c.finite])
                  /\ i' = 1
                  /\ UNCHANGED raised
          /\ log' = Append(log, Event("cost", 0, "", NoT, c.raised = "none"))
    /\ UNCHANGED <<inputs, permutation, mini_batches, layers_list,
                   parameters, v, s, epoch, batch, activations, grads>>

\* one iteration of the loop "for i in range(1, lim)" of the strategy that
\* the if/elif/else chain of train_nn_model selected, and what follows it
UpdateIteration(strategy, st, step) ==
    /\ parameters' = st.parameters
    /\ v' = [v EXCEPT !.d = st.v]
    /\ s' = [s EXCEPT !.d = st.s]
    /\ log' = Append(log, Event("update", i, strategy, step, st.raised = "none"))
    /\ IF st.raised # "none"
       THEN /\ pc' = "Error"
            /\ raised' = st.raised
            /\ UNCHANGED <<i, batch>>
       ELSE /\ UNCHANGED raised
            /\ IF i < NumLayers(parameters)
               THEN /\ i' = i + 1
                    /\ pc' = "Update"
                    /\ UNCHANGED batch
               ELSE /\ i' = 0
                    /\ IF batch < Len(mini_batches)
                       THEN batch' = batch + 1 /\ pc' = "Forward"
                       ELSE batch' = batch /\ pc' = "EpochEnd"
    /\ UNCHANGED <<inputs, permutation, mini_batches, layers_list, epoch,
                   activations, grads, cost>>

Store == [parameters |-> parameters, v |-> v.d, s |-> s.d, raised |-> "none"]

UpdateRmsprop ==
    /\ mode = "train"
    /\ pc = "Update"
    /\ optimization = "rmsprop"
    /\ UpdateIteration("rmsprop", RmspropLayer(Store, grads, learning_rate, i), t)

UpdateAdam ==
    /\ mode = "train"
    /\ pc = "Update"
    /\ optimization # "rmsprop"
    /\ optimization = "adam"
    /\ UpdateIteration("adam", AdamLayer(Store, grads, learning_rate, i), t)

UpdateMomentum ==
    /\ mode = "train"
    /\ pc = "Update"
    /\ optimization \notin {"rmsprop", "adam"}
    /\ optimization = "momentum"
    /\ UpdateIteration("momentum",
                       MomentumLayer(Store, grads, learning_rate, i), NoT)

UpdatePlain ==
    /\ mode = "train"
    /\ pc = "Update"
    /\ optimization \notin {"rmsprop", "adam", "momentum"}
    /\ UpdateIteration("plain", PlainLayer(Store, grads, learning_rate, i), NoT)

\* the epoch loop is exhausted: return parameters
Return ==
    /\ mode = "train"
    /\ pc \in {"Initialized", "EpochEnd"}
    /\ epoch >= epochs
    /\ pc' = "Done"
    /\ log' = Append(log, Event("return", 0, "", NoT, TRUE))
    /\ UNCHANGED <<inputs, raised, permutation, mini_batches, layers_list,
                   parameters, locals>>

Next ==
    \/ TrainInit
    \/ EpochBegin
    \/ Forward
    \/ Backward
    \/ Cost
    \/ UpdateRmsprop
    \/ UpdateAdam
    \/ UpdateMomentum
    \/ UpdatePlain
    \/ Return

Spec == Init /\ [][Next]_vars

-----------------------------------------------------------------------------
(* SpecNumeric: one mini-batch step (forward, backward, update) of the      *)
(* single-layer network [2, 1], computed entry by entry.  Array entries are *)
(* rationals <<numerator, denominator>> in lowest terms with a positive     *)
(* denominator, and the inputs are those on which np.exp and np.sqrt have   *)
(* rational values, so that every entry is exact.                           *)

MaxBatch == 2      \* numeric run: at most this many examples in the mini-batch

Abs(a) == IF a < 0 THEN 0 - a ELSE a

RECURSIVE GCD(_, _)
GCD(a, b) == IF b = 0 THEN a ELSE GCD(b, a % b)

Rat(n, d) ==
    LET g == GCD(Abs(n), Abs(d))
        sgn == IF d < 0 THEN 0 - 1 ELSE 1
    IN  <<(sgn * n) \div g, (sgn * d) \div g>>

Zero == Rat(0, 1)
One == Rat(1, 1)

RAdd(p, q) == Rat(p[1] * q[2] + q[1] * p[2], p[2] * q[2])
RNeg(p) == <<0 - p[1], p[2]>>
RSub(p, q) == RAdd(p, RNeg(q))
RMul(p, q) == Rat(p[1] * q[1], p[2] * q[2])
RDiv(p, q) == Rat(p[1] * q[2], p[2] * q[1])
RLess(p, q) == p[1] * q[2] < q[1] * p[2]

\* p**k for an integer k >= 0
RECURSIVE RPow(_, _)
RPow(p, k) == IF k = 0 THEN One ELSE RMul(p, RPow(p, k - 1))

\* np.sum over a sequence of entries
RECURSIVE RSum(_)
RSum(qs) == IF qs = <<>> THEN Zero ELSE RAdd(Head(qs), RSum(Tail(qs)))

IsSquare(k) == k >= 0 /\ \E r \in 0..k : r * r = k

\* the entries whose square root is rational
HasRationalRoot(q) == IsSquare(q[1]) /\ IsSquare(q[2])

\* np.sqrt, on an entry that has a rational root
np_sqrt(q) ==
    <<CHOOSE r \in 0..q[1] : r * r = q[1], CHOOSE r \in 0..q[2] : r * r = q[2]>>

\* np.exp: its only rational value at a rational argument is exp(0) = 1
np_exp(q) == CASE q = Zero -> One

\* act = 1/(1+np.exp(-z))
sigmoid(z) == RDiv(One, RAdd(One, np_exp(RNeg(z))))

\* Z = np.dot(W1, A0) + b1: the entry of Z for the example (column) xv
PreActivation(wv, bv, xv) ==
    RAdd(RSum([j \in 1..Len(wv) |-> RMul(wv[j], xv[j])]), bv)

\* forward_propagation on the single layer: the prediction A1
forward_propagation_num(wv, bv, xs) ==
    [e \in 1..Len(xs) |-> sigmoid(PreActivation(wv, bv, xs[e]))]

\* backward_propagation on the single layer; y has shape (1, len(ys))
backward_propagation_num(ys, wv, xs, acts, lam, reg_arg) ==
    LET m == BackwardM(<<1, Len(ys)>>)
        dZ(e) == RSub(acts[e], ys[e])
        dW(j) == RMul(Rat(1, m),
                      RSum([e \in 1..Len(ys) |-> RMul(dZ(e), xs[e][j])]))
        db == RMul(Rat(1, m), RSum([e \in 1..Len(ys) |-> dZ(e)]))
    IN  [dW |-> [j \in 1..Len(wv) |->
                    IF reg_arg = "l2"
                    THEN RAdd(dW(j), RMul(RDiv(lam, Rat(m, 1)), wv[j]))
                    ELSE dW(j)],
         db |-> db]

UpdateParametersAdds(wv, bv, g, lr) ==
    [W |-> [j \in 1..Len(wv) |-> RAdd(wv[j], RMul(lr, g.dW[j]))],
     b |-> RAdd(bv, RMul(lr, g.db))]

\* update_parameters on the single layer
update_parameters_num(wv, bv, g, lr) ==
    [W |-> [j \in 1..Len(wv) |-> RSub(wv[j], RMul(lr, g.dW[j]))],
     b |-> RSub(bv, RMul(lr, g.db))]

\* s[key] = beta*s[key] + (1-beta)*gradients[key]**2, for one entry
RmspropAccumulate(acc, g, beta) ==
    RAdd(RMul(beta, acc), RMul(RSub(One, beta), RMul(g, g)))

\* s_corrected[key] = s[key]/(1-beta**t), for one entry
RmspropCorrect(acc, beta, step) == RDiv(acc, RSub(One, RPow(beta, step)))

RmspropEntryWithGradient(theta, acc, g, lr, beta, eps, step) ==
    LET s1 == RmspropAccumulate(acc, g, beta)
        s_corrected == RmspropCorrect(s1, beta, step)
    IN  [theta |-> RSub(theta, RDiv(RMul(lr, g),
                                    RAdd(eps, np_sqrt(s_corrected)))),
         acc |-> s1]

\* the three statements of update_parameters_rmsprop for one entry of one
\* parameter: parameters[key] -= learning_rate*1/(epsilon + np.sqrt(...))
RmspropEntry(theta, acc, g, lr, beta, eps, step) ==
    LET s1 == RmspropAccumulate(acc, g, beta)
        s_corrected == RmspropCorrect(s1, beta, step)
    IN  [theta |-> RSub(theta, RDiv(RMul(lr, One),
                                    RAdd(eps, np_sqrt(s_corrected)))),
         acc |-> s1]

\* update_parameters_rmsprop on the single layer
update_parameters_rmsprop_num(wv, bv, g, lr, sW, sb, step, beta, eps) ==
    LET w(j) == RmspropEntry(wv[j], sW[j], g.dW[j], lr, beta, eps, step)
        c == RmspropEntry(bv, sb, g.db, lr, beta, eps, step)
    IN  [W |-> [j \in 1..Len(wv) |-> w(j).theta],
         b |-> c.theta,
         sdW |-> [j \in 1..Len(wv) |-> w(j).acc],
         sdb |-> c.acc]

\* layers = [X.shape[0], 1]: two features, no hidden layer
NumericTopology == <<2, 1>>

WeightValues == {Rat(1, 2), Rat(0 - 1, 2)}
FeatureValues == {Zero, One}
LabelValues == {Zero, One}
RateValues == {Rat(1, 10), Rat(1, 2)}
Penalties == {<<"l2", Zero>>, <<"l2", Rat(2, 1)>>, <<"none", Rat(2, 1)>>}
BetaValues == {Zero, Rat(9, 16)}
AccumulatorValues == {Zero, Rat(7, 12)}
EpsilonValue == Rat(1, 100)

\* the arguments of a step with the plain strategy, and with rmsprop
NumericStrategies ==
    {[optimization |-> "none", beta |-> Zero, t |-> t_default, acc |-> Zero]}
    \cup {[optimization |-> "rmsprop", beta |-> bt, t |-> st, acc |-> ac] :
             bt \in BetaValues, st \in {1, t_default}, ac \in AccumulatorValues}

\* the examples (columns of X) on which np.exp is rational: Z = 0
ExactExamples(wv, bv) ==
    {xv \in [1..Len(wv) -> FeatureValues] : PreActivation(wv, bv, xv) = Zero}

\* the inputs on which np.sqrt is rational
ExactRoots(c) ==
    c.optimization = "rmsprop" =>
        \A acts \in {forward_propagation_num(c.W, c.b, c.X)} :
        \A g \in {backward_propagation_num(c.y, c.W, c.X, acts,
                                            c.lambd, c.regularization)} :
            /\ \A j \in 1..Len(c.W) :
                  HasRationalRoot(RmspropCorrect(
                      RmspropAccumulate(c.sdW[j], g.dW[j], c.beta), c.beta, c.t))
            /\ HasRationalRoot(RmspropCorrect(
                  RmspropAccumulate(c.sdb, g.db, c.beta), c.beta, c.t))

\* the network and a mini-batch of m examples: W as np.random.randn may draw
\* it, the examples and their labels (b = np.zeros([n_out, 1]) is added below)
NetworkInputs(m) ==
    UNION {{[W |-> wv, X |-> xs, y |-> ys] :
               xs \in [1..m -> ExactExamples(wv, Zero)],
               ys \in [1..m -> LabelValues]} :
           wv \in [1..NumericTopology[1] -> WeightValues]}

\* the state at the start of the step; the accumulators are zeros as
\* initialize_rmsprop_params makes them, or what earlier steps left in them
StepInputs(c, lr, pen, st) ==
    [W |-> c.W, b |-> Zero, X |-> c.X, y |-> c.y,
     learning_rate |-> lr, lambd |-> pen[2], regularization |-> pen[1],
     optimization |-> st.optimization, beta |-> st.beta,
     epsilon |-> EpsilonValue, t |-> st.t,
     sdW |-> [j \in 1..Len(c.W) |-> st.acc], sdb |-> st.acc,
     A |-> <<>>, dW |-> <<>>, db |-> Zero,
     W_old |-> c.W, b_old |-> Zero,
     sdW_old |-> [j \in 1..Len(c.W) |-> st.acc], sdb_old |-> st.acc]

NumericInputs(m) ==
    {r \in {StepInputs(c, lr, pen, st) :
                c \in NetworkInputs(m), lr \in RateValues, pen \in Penalties,
                st \in NumericStrategies} : ExactRoots(r)}

InitNumeric ==
    /\ mode = "numeric"
    /\ pc = "Forward"
    /\ X = <<>>
    /\ Y = <<>>
    /\ batch_arg = 0
    /\ layers_list = <<>>
    /\ NoTrainArgs
    /\ FreshCall
    /\ \E m \in 1..MaxBatch : num \in NumericInputs(m)

beside_num == <<mode, X, Y, batch_arg, n_x, hidden_layers, epochs,
                learning_rate, regularization, optimization, t, kwargs,
                locals, raised, permutation, mini_batches, layers_list,
                parameters, log>>

\* activations, prediction = forward_propagation(minibatch_X, parameters)
NumForward ==
    /\ mode = "numeric"
    /\ pc = "Forward"
    /\ num' = [num EXCEPT !.A = forward_propagation_num(num.W, num.b, num.X)]
    /\ pc' = "Backward"
    /\ UNCHANGED beside_num

\* grads = backward_propagation(minibatch_y, parameters, activations, ...)
NumBackward ==
    /\ mode = "numeric"
    /\ pc = "Backward"
    /\ LET g == backward_propagation_num(num.y, num.W, num.X, num.A,
                                         num.lambd, num.regularization)
       IN  num' = [num EXCEPT !.dW = g.dW, !.db = g.db]
    /\ pc' = "Update"
    /\ UNCHANGED beside_num

\* parameters = update_parameters_rmsprop(parameters, grads, ..., s, t, ...)
NumUpdateRmsprop ==
    /\ mode = "numeric"
    /\ pc = "Update"
    /\ num.optimization = "rmsprop"
    /\ LET r == update_parameters_rmsprop_num(num.W, num.b,
                    [dW |-> num.dW, db |-> num.db], num.learning_rate,
                    num.sdW, num.sdb, num.t, num.beta, num.epsilon)
       IN  num' = [num EXCEPT !.W = r.W, !.b = r.b,
                              !.sdW = r.sdW, !.sdb = r.sdb,
                              !.W_old = num.W, !.b_old = num.b,
                              !.sdW_old = num.sdW, !.sdb_old = num.sdb]
    /\ pc' = "Updated"
    /\ UNCHANGED beside_num

\* parameters = update_parameters(parameters, grads, learning_rate)
NumUpdatePlain ==
    /\ mode = "numeric"
    /\ pc = "Update"
    /\ num.optimization \notin {"rmsprop", "adam", "momentum"}
    /\ LET r == update_parameters_num(num.W, num.b,
                    [dW |-> num.dW, db |-> num.db], num.learning_rate)
       IN  num' = [num EXCEPT !.W = r.W, !.b = r.b,
                              !.W_old = num.W, !.b_old = num.b]
    /\ pc' = "Updated"
    /\ UNCHANGED beside_num

NextNumeric ==
    \/ NumForward
    \/ NumBackward
    \/ NumUpdateRmsprop
    \/ NumUpdatePlain

SpecNumeric == InitNumeric /\ [][NextNumeric]_vars

-----------------------------------------------------------------------------

(* Claims about generate_random_mini_batches, under SpecSampler *)

ChunkColumns == Concat([k \in 1..Len(mini_batches) |-> mini_batches[k].X])

\* how many chunk positions hold example id
Occurrences(id) ==
    Cardinality({<<k, q>> \in (1..Len(mini_batches)) \X (1..Len(X)) :
                    q <= Len(mini_batches[k].X) /\ mini_batches[k].X[q] = id})

\* C1: for m >= 1, B >= 1 with m mod B # 0, the column indices of the chunks
\* of one call, concatenated in chunk order, are exactly the permutation drawn
\* for that call; every example, with its own label, is in exactly one chunk.
C1_ChunksArePermutation ==
    (mode = "sampler" /\ pc = "returned"
        /\ Len(X) >= 1 /\ Len(X) % batch_arg # 0)
    => /\ permutation \in np_random_permutation(Len(X))
       /\ ChunkColumns = permutation
       /\ \A id \in 0..(Len(X) - 1) : Occurrences(id) = 1
       /\ \A k \in 1..Len(mini_batches) :
             /\ Len(mini_batches[k].Y) = Len(mini_batches[k].X)
             /\ \A q \in 1..Len(mini_batches[k].X) :
                   mini_batches[k].Y[q] = Y[mini_batches[k].X[q] + 1]

C1_Witness ==
    /\ mode = "sampler" /\ pc = "returned"
    /\ Len(X) = 4 /\ batch_arg = 3
    /\ permutation = <<2, 0, 3, 1>>
    /\ Y = <<0, 1, 1, 0>>
    /\ Len(mini_batches) = 2
    /\ mini_batches[1].X = <<2, 0, 3>> /\ mini_batches[1].Y = <<1, 0, 0>>
    /\ mini_batches[2].X = <<1>> /\ mini_batches[2].Y = <<1>>

\* C2: a call always returns exactly 1 + floor(m/B) chunks, and when m is an
\* exact multiple of B the last chunk has zero columns while the chunks
\* before it still hold all m examples.
C2_ChunkCountAndEmptyTail ==
    (mode = "sampler" /\ pc = "returned")
    => /\ Len(mini_batches) = 1 + (Len(X) \div batch_arg)
       /\ (Len(X) % batch_arg = 0)
            => /\ mini_batches[Len(mini_batches)].X = <<>>
               /\ mini_batches[Len(mini_batches)].Y = <<>>
               /\ Concat([k \in 1..(Len(mini_batches) - 1) |-> mini_batches[k].X])
                     = permutation
               /\ \A id \in 0..(Len(X) - 1) : Occurrences(id) = 1

C2_Witness ==
    /\ mode = "sampler" /\ pc = "returned"
    /\ Len(X) = 4 /\ batch_arg = 2
    /\ Len(mini_batches) = 3
    /\ Len(mini_batches[1].X) = 2 /\ Len(mini_batches[2].X) = 2
    /\ mini_batches[3] = [X |-> <<>>, Y |-> <<>>]

-----------------------------------------------------------------------------
(* Claims about train_nn_model, under Spec *)

L == NumLayers(parameters)

IsUpdate(n) == log[n].op = "update"

\* the update call that log entry n belongs to, counted from 1 over the run
UpdateCallIndex(n) ==
    Cardinality({q \in 1..n : IsUpdate(q) /\ log[q].layer = 1})

\* the update calls that ran their loop to its end
CompletedSteps ==
    Cardinality({n \in DOMAIN log : IsUpdate(n) /\ log[n].ok /\ log[n].layer = L})

StateInitialized == \E n \in DOMAIN log : log[n].op = "init_state"

\* C3 (as claimed): with rmsprop or adam the step counter used for bias
\* correction is 1 at the first mini-batch update and grows by one per update,
\* so the k-th update call of the run uses t = k, in all of its layers.
C3_StepCounterCountsUpdates ==
    \A n \in DOMAIN log :
        (IsUpdate(n) /\ log[n].strategy \in {"rmsprop", "adam"})
        => log[n].t = UpdateCallIndex(n)

\* the place of a parameter in the order the update loops write them
Ord(key) == 2 * key[2] - (IF key[1] = "W" THEN 1 ELSE 0)

RecognizedNames == {"none", "momentum", "rmsprop", "adam"}

CompletedInEpoch ==
    Cardinality({n \in DOMAIN log : IsUpdate(n) /\ log[n].ok
                    /\ log[n].layer = L /\ log[n].epoch = epoch})

C7_Lifecycle ==
    (mode = "train" /\ kwargs = <<>> /\ learning_rate = Scalar)
    => /\ pc \in {"Uninitialized", "Initialized", "Forward", "Backward",
                   "Cost", "Update", "EpochEnd", "Done"}
       /\ raised = "none"
       /\ pc # "Uninitialized" =>
             /\ Cardinality({n \in DOMAIN log : log[n].op = "create_layers"}) = 1
             /\ Cardinality({n \in DOMAIN log : log[n].op = "init_state"}) = 1
             /\ log[1].op = "create_layers" /\ log[2].op = "init_state"
       /\ pc = "Done" =>
             /\ epoch = epochs
             /\ Cardinality({n \in DOMAIN log : log[n].op = "sample"}) = epochs

AccumulatorKeys ==
    {<<"dW", j>> : j \in 1..L} \cup {<<"db", j>> : j \in 1..L}

\* C8: at every point of a run the optimizer state holds accumulators only for
\* the selected strategy: none for plain gradient descent, only v for
\* momentum, only s for rmsprop, v and s for adam; an accumulator of another
\* strategy is never allocated or updated.
C8_StateOnlyForSelectedStrategy ==
    (mode = "train")
    => /\ v.bound => optimization \in {"momentum", "adam"}
       /\ s.bound => optimization \in {"rmsprop", "adam"}
       /\ ~v.bound => v.d = EmptyDict
       /\ ~s.bound => s.d = EmptyDict
       /\ StateInitialized =>
             /\ v.bound <=> optimization \in {"momentum", "adam"}
             /\ s.bound <=> optimization \in {"rmsprop", "adam"}
             /\ v.bound => DOMAIN v.d = AccumulatorKeys
             /\ s.bound => DOMAIN s.d = AccumulatorKeys
       /\ ~StateInitialized => (~v.bound /\ ~s.bound)

C8_Witness ==
    /\ mode = "train" /\ optimization = "momentum" /\ pc = "Done"
    /\ L = 2 /\ epochs = 2
    /\ v.bound /\ ~s.bound /\ s.d = EmptyDict
    /\ \A key \in AccumulatorKeys : v.d[key].nupd >= 2

ParamOf(key) == <<(IF key[1] = "dW" THEN "W" ELSE "b"), key[2]>>

\* the accumulator dictionaries the selected strategy works with
UsedAccumulators ==
    (IF optimization \in {"momentum", "adam"} THEN {v} ELSE {})
        \cup (IF optimization \in {"rmsprop", "adam"} THEN {s} ELSE {})

\* C9: in every state of a momentum, rmsprop or adam run, for every layer i
\* each accumulator entry for dW_i and db_i exists, has the shape of the
\* parameter it shadows, and is all zeros before the first update.
C9_AccumulatorsShadowParameters ==
    (mode = "train" /\ StateInitialized
        /\ optimization \in {"momentum", "rmsprop", "adam"})
    => /\ UsedAccumulators # {}
       /\ \A acc \in UsedAccumulators :
             /\ acc.bound
             /\ \A j \in 1..L : \A kind \in {"dW", "db"} :
                   /\ <<kind, j>> \in DOMAIN acc.d
                   /\ acc.d[<<kind, j>>].shape = parameters[ParamOf(<<kind, j>>)].shape
                   /\ (\A n \in DOMAIN log : ~IsUpdate(n))
                        => (acc.d[<<kind, j>>].zeros /\ acc.d[<<kind, j>>].nupd = 0)

C9_Witness ==
    /\ mode = "train" /\ optimization = "adam" /\ pc = "Update" /\ i = 2
    /\ n_x = 2 /\ hidden_layers = <<2>>
    /\ v.d[<<"dW", 1>>].shape = <<2, 2>> /\ v.d[<<"dW", 1>>].nupd = 1
    /\ s.d[<<"db", 1>>].shape = <<2, 1>> /\ s.d[<<"db", 1>>].nupd = 1
    /\ v.d[<<"dW", 2>>] = Zeros(<<1, 2>>)
    /\ s.d[<<"db", 2>>] = Zeros(<<1, 1>>)

-----------------------------------------------------------------------------
(* Claims about create_layers, under SpecLayers *)

ValidTopology(ll) == Len(ll) >= 2 /\ \A j \in 1..Len(ll) : ll[j] > 0

\* C10: for every valid topology [n_0, ..., n_L] (length >= 2, widths
\* positive) create_layers returns a store with exactly the entries W_i and
\* b_i for i in 1..L, W_i of shape (n_i, n_{i-1}), b_i of shape (n_i, 1), and
\* every b_i all zeros.
C10_CreateLayersShapes ==
    (mode = "layers" /\ pc # "call" /\ ValidTopology(layers_list))
    => /\ pc = "returned" /\ raised = "none"
       /\ DOMAIN parameters =
             {<<"W", j>> : j \in 1..(Len(layers_list) - 1)}
                \cup {<<"b", j>> : j \in 1..(Len(layers_list) - 1)}
       /\ \A j \in 1..(Len(layers_list) - 1) :
             /\ parameters[<<"W", j>>].shape = <<layers_list[j + 1], layers_list[j]>>
             /\ parameters[<<"b", j>>].shape = <<layers_list[j + 1], 1>>
             /\ parameters[<<"b", j>>].zeros
             /\ parameters[<<"b", j>>].nupd = 0

C10_Witness ==
    /\ mode = "layers" /\ pc = "returned"
    /\ layers_list = <<2, 1, 2>>
    /\ parameters[<<"W", 1>>].shape = <<1, 2>>
    /\ parameters[<<"W", 2>>].shape = <<2, 1>>
    /\ parameters[<<"b", 2>>] = Zeros(<<2, 1>>)

\* the loop indices at which initialize_parameters cannot build its arrays
BadLayers(ll) ==
    {j \in 1..(Len(ll) - 1) : ll[j] <= 0 \/ ll[j + 1] < 0}

FirstBadLayer(ll) ==
    CHOOSE j \in BadLayers(ll) : \A q \in BadLayers(ll) : j <= q

C12_NumericErrorsSurfaced ==
    mode = "train" =>
        \A n \in DOMAIN log :
            (IsUpdate(n) /\ log[n].epoch = epoch)
            => /\ mini_batches[log[n].batch].X # <<>>
               /\ cost[log[n].batch].finite

-----------------------------------------------------------------------------
(* Further claims about generate_random_mini_batches, under SpecSampler *)

ChunkSizes == [k \in 1..Len(mini_batches) |-> Len(mini_batches[k].X)]

\* C14: for m examples and batch size B every chunk but the last has exactly B
\* columns and the last has m mod B columns; chunk k is the contiguous slice
\* (k-1)*B .. k*B of the permuted columns, and its X and Y hold the same
\* examples in the same order; for m = 5 and B = 2 the sizes are [2, 2, 1].
C14_ChunkSizesAndSlices ==
    (mode = "sampler" /\ pc = "returned")
    => LET m == Len(X)
           B == batch_arg
           n == Len(mini_batches)
       IN  /\ n >= 1
           /\ \A k \in 1..(n - 1) : ChunkSizes[k] = B
           /\ ChunkSizes[n] = m % B
           /\ \A k \in 1..n :
                 /\ mini_batches[k].X =
                       [q \in 1..ChunkSizes[k] |-> permutation[(k - 1) * B + q]]
                 /\ mini_batches[k].Y =
                       [q \in 1..ChunkSizes[k] |-> Y[mini_batches[k].X[q] + 1]]
           /\ (m = 5 /\ B = 2) => ChunkSizes = <<2, 2, 1>>

C14_Witness ==
    /\ mode = "sampler" /\ pc = "returned"
    /\ Len(X) = 5 /\ batch_arg = 2
    /\ permutation = <<3, 0, 4, 1, 2>>
    /\ Y = <<0, 1, 1, 0, 1>>
    /\ ChunkSizes = <<2, 2, 1>>
    /\ mini_batches[2] = [X |-> <<4, 1>>, Y |-> <<1, 1>>]
    /\ mini_batches[3] = [X |-> <<2>>, Y |-> <<1>>]

-----------------------------------------------------------------------------
(* Further claims about train_nn_model, under Spec *)

\* C15 (as claimed): the m of the factors 1/m and lambda/m of every dW_l and
\* db_l is the number of examples of the mini-batch, the same m compute_cost
\* uses for that mini-batch, for every batch size >= 1.
C15_GradientsAveragedOverBatch ==
    (mode = "train" /\ pc = "Update")
    => \A key \in DOMAIN grads :
          /\ grads[key].m = Len(mini_batches[batch].Y)
          /\ grads[key].m = cost[Len(cost)].m

SameBatch(a, b) == a.epoch = b.epoch /\ a.batch = b.batch

\* C16 (as claimed): for each mini-batch the steps run in the order forward,
\* cost, backward, update: a cost evaluation directly follows the forward pass
\* of its mini-batch, the backward pass directly follows the cost evaluation,
\* and the update starts directly after the backward pass.
C16_ForwardCostBackwardUpdate ==
    mode = "train" =>
        \A n \in DOMAIN log :
            /\ log[n].op = "cost" =>
                  (n > 1 /\ log[n - 1].op = "forward" /\ SameBatch(log[n - 1], log[n]))
            /\ log[n].op = "backward" =>
                  (n > 1 /\ log[n - 1].op = "cost" /\ SameBatch(log[n - 1], log[n]))
            /\ (IsUpdate(n) /\ log[n].layer = 1) =>
                  (n > 1 /\ log[n - 1].op = "backward" /\ SameBatch(log[n - 1], log[n]))

\* C16 (amended): for each mini-batch the steps run in the order forward,
\* backward, cost, update, each directly after the previous one has completed;
\* the forward pass of a mini-batch follows the sampling (first mini-batch of
\* an epoch) or the completed update of the previous mini-batch; forward,
\* backward and cost leave the parameter store as the last completed update
\* left it.
C16_ForwardBackwardCostUpdate ==
    mode = "train" =>
        /\ \A n \in DOMAIN log :
            /\ log[n].op = "forward" =>
                  /\ n > 1
                  /\ IF log[n].batch = 1
                     THEN log[n - 1].op = "sample" /\ log[n - 1].epoch = log[n].epoch
                     ELSE /\ IsUpdate(n - 1) /\ log[n - 1].ok /\ log[n - 1].layer = L
                          /\ log[n - 1].epoch = log[n].epoch
                          /\ log[n - 1].batch = log[n].batch - 1
            /\ log[n].op = "backward" =>
                  (n > 1 /\ log[n - 1].op = "forward" /\ SameBatch(log[n - 1], log[n]))
            /\ log[n].op = "cost" =>
                  (n > 1 /\ log[n - 1].op = "backward" /\ SameBatch(log[n - 1], log[n]))
            /\ IsUpdate(n) =>
                  /\ n > 1
                  /\ SameBatch(log[n - 1], log[n])
                  /\ log[n - 1].ok
                  /\ IF log[n].layer = 1
                     THEN log[n - 1].op = "cost"
                     ELSE IsUpdate(n - 1) /\ log[n - 1].layer = log[n].layer - 1
        /\ pc \in {"Forward", "Backward", "Cost"} =>
              \A key \in DOMAIN parameters : parameters[key].nupd = CompletedSteps

C16_Witness ==
    /\ mode = "train" /\ pc = "Done"
    /\ hidden_layers # <<>>
    /\ \E n \in DOMAIN log :
          /\ n + 6 <= Len(log)
          /\ log[n].op = "forward" /\ log[n].batch = 1
          /\ log[n + 1].op = "backward"
          /\ log[n + 2].op = "cost"
          /\ IsUpdate(n + 3) /\ log[n + 3].layer = 1
          /\ IsUpdate(n + 4) /\ log[n + 4].layer = 2 /\ log[n + 4].ok
          /\ log[n + 5].op = "forward" /\ log[n + 5].batch = 2
          /\ log[n + 6].op = "backward"

\* C17: the L2 term (lambd/m)*W_l is added to dW_l and never to db_l, for every
\* layer l; when regularization is not 'l2' no gradient gets a regularization
\* term and compute_cost adds no penalty.
C17_RegularizationOnlyOnWeights ==
    (mode = "train" /\ pc = "Update")
    => /\ DOMAIN grads = {<<"dW", li>> : li \in 1..L} \cup {<<"db", li>> : li \in 1..L}
       /\ \A li \in 1..L :
             /\ grads[<<"dW", li>>].reg = (regularization = "l2")
             /\ ~grads[<<"db", li>>].reg
       /\ cost[Len(cost)].reg = (regularization = "l2")

C17_Witness ==
    /\ mode = "train" /\ pc = "Update"
    /\ regularization = "l2"
    /\ L = 2
    /\ grads[<<"dW", 1>>].reg /\ grads[<<"dW", 2>>].reg
    /\ ~grads[<<"db", 1>>].reg /\ ~grads[<<"db", 2>>].reg
    /\ cost[Len(cost)].reg

-----------------------------------------------------------------------------
(* Claims about the arithmetic of one step, under SpecNumeric *)

Features == 1..Len(num.W)

\* the literal scenario: topology [2,1], W_1 = [[0.5,-0.5]], b_1 = [[0]],
\* X = [[1],[1]], Y = [[1]], lambda = 0, alpha = 0.1, plain strategy
LiteralScenario ==
    /\ mode = "numeric"
    /\ num.optimization = "none"
    /\ num.W_old = <<Rat(1, 2), Rat(0 - 1, 2)>>
    /\ num.b_old = Zero
    /\ num.X = <<(<<One, One>>)>>
    /\ num.y = <<One>>
    /\ num.lambd = Zero
    /\ num.learning_rate = Rat(1, 10)

\* C13: with the plain strategy one update sets every parameter entry to
\* theta - alpha*dtheta; in the literal scenario forward gives A = 0.5,
\* backward gives dW = [-0.5,-0.5] and db = -0.5, and the update yields
\* W_new = [0.55,-0.45] and b_new = 0.05.
C13_PlainUpdateAndLiteral ==
    /\ (mode = "numeric" /\ pc = "Updated" /\ num.optimization = "none")
       => /\ \A j \in Features :
                num.W[j] = RSub(num.W_old[j], RMul(num.learning_rate, num.dW[j]))
          /\ num.b = RSub(num.b_old, RMul(num.learning_rate, num.db))
    /\ LiteralScenario
       => /\ pc \in {"Backward", "Update", "Updated"} => num.A = <<Rat(1, 2)>>
          /\ pc \in {"Update", "Updated"} =>
                /\ num.dW = <<Rat(0 - 1, 2), Rat(0 - 1, 2)>>
                /\ num.db = Rat(0 - 1, 2)
          /\ pc = "Updated" =>
                /\ num.W = <<Rat(55, 100), Rat(0 - 45, 100)>>
                /\ num.b = Rat(5, 100)

C13_Witness ==
    /\ LiteralScenario
    /\ pc = "Updated"
    /\ num.W = <<Rat(11, 20), Rat(0 - 9, 20)>>
    /\ num.b = Rat(1, 20)

\* C18: under rmsprop the amount subtracted from each parameter entry in one
\* update is alpha/(epsilon + sqrt(s_hat)); it does not depend on the sign of
\* the gradient, and for alpha > 0 every W and b entry strictly decreases.
C18_RmspropStepIgnoresGradient ==
    (mode = "numeric" /\ pc = "Updated" /\ num.optimization = "rmsprop")
    => LET Amount(acc) ==
               RDiv(num.learning_rate,
                    RAdd(num.epsilon,
                         np_sqrt(RDiv(acc, RSub(One, RPow(num.beta, num.t))))))
           flipped == update_parameters_rmsprop_num(num.W_old, num.b_old,
                          [dW |-> [j \in Features |-> RNeg(num.dW[j])],
                           db |-> RNeg(num.db)],
                          num.learning_rate,
                          num.sdW_old, num.sdb_old,
                          num.t, num.beta, num.epsilon)
       IN  /\ RLess(Zero, num.learning_rate)
           /\ \A j \in Features :
                 /\ RSub(num.W_old[j], num.W[j]) = Amount(num.sdW[j])
                 /\ RLess(num.W[j], num.W_old[j])
           /\ RSub(num.b_old, num.b) = Amount(num.sdb)
           /\ RLess(num.b, num.b_old)
           /\ flipped = [W |-> num.W, b |-> num.b,
                          sdW |-> num.sdW, sdb |-> num.sdb]

C18_Witness ==
    /\ mode = "numeric" /\ pc = "Updated"
    /\ num.optimization = "rmsprop"
    /\ num.beta = Rat(9, 16) /\ num.t = t_default
    /\ num.sdb_old = Zero
    /\ num.dW = <<Rat(1, 2), Rat(0 - 3, 2)>>
    /\ num.db = Rat(0 - 1, 2)
    /\ RLess(num.W[1], num.W_old[1])
    /\ RLess(num.W[2], num.W_old[2])
    /\ RLess(num.b, num.b_old)

====
